---- MODULE Spec2Model ----
(***************************************************************************)
(* Persistence models of model/user.py: users, sections, the user_sections *)
(* enrollment table, and the stock game tables (stockuser, stocks,         *)
(* stock_transactions, user_transaction_stocks).                           *)
(*                                                                         *)
(* The variables are the committed contents of the tables.  Every method   *)
(* of the models ends in db.session.commit(), db.session.rollback() or an  *)
(* exception that leaves the method, so one action is one method call that *)
(* starts from a session with nothing pending.  A commit that violates a   *)
(* declared constraint (unique, nullable=False, primary key) raises        *)
(* IntegrityError and writes nothing.  Objects are expired by a commit, so *)
(* a relationship read after it (self.sections, user.stock_user,           *)
(* transaction.stock_transaction) shows the committed rows.                *)
(*                                                                         *)
(* Five specifications share the variables: SpecUser (accounts, from the   *)
(* data of initUsers), SpecSection (enrollment), SpecCatalog (sections and *)
(* their deletion), SpecStock (the stock game) and SpecQuote (the stock    *)
(* catalog and its lookups).                                               *)
(***************************************************************************)
EXTENDS Integers, Sequences, FiniteSets, TLC

VARIABLES users, sections, user_sections, stockusers, stocks, transactions,
          user_transaction_stocks, last

vars == <<users, sections, user_sections, stockusers, stocks, transactions,
          user_transaction_stocks, last>>

(* ---------------------------- bounds ----------------------------------- *)
MaxUsers == 2
MaxSections == 2
MaxAbbrs == 2
MaxStockUsers == 2
MaxStocks == 1
MaxTransactions == 1

(* ---------------------------- values ----------------------------------- *)
None == "None"
Uids == {"toby", "niko"}
SectionNames == {"Computer Science A"}
Abbreviations == {"CSA", "CSP"}
\* date.today().month: both ends of the year and of the enrollment window
Months == {1, 7, 8, 12}
Years == {2024}
\* salts drawn by generate_password_hash
Salts == {"salt1", "salt2"}

Symbols == {"AAPL", "GOOG"}
Companies == {"Apple Inc."}
Prices == {150}
Quantities == {5}

\* request bodies of the stock game: uid and symbol, quantity when given
Bodies ==
    [uid : Uids, symbol : Symbols]
        \cup [uid : Uids, symbol : Symbols, quantity : Quantities]

\* the defaults of update(name="", uid="", password="", pfp=None,
\* kasm_server_needed=None)
UpdateDefaults ==
    [name |-> "", uid |-> "", password |-> "", pfp |-> None,
     kasm_server_needed |-> None]

\* the argument lists given to update: none, one argument, or all of them
UpdateArgs ==
    {UpdateDefaults}
        \cup {[UpdateDefaults EXCEPT !.name = "Nicholas Tesla"]}
        \cup {[UpdateDefaults EXCEPT !.uid = uid] : uid \in Uids}
        \cup {[UpdateDefaults EXCEPT !.password = "123niko"]}
        \cup {[UpdateDefaults EXCEPT !.pfp = "niko.png"]}
        \cup {[UpdateDefaults EXCEPT !.kasm_server_needed = "False"]}
        \cup {[name |-> "Nicholas Tesla", uid |-> uid, password |-> "123niko",
               pfp |-> "niko.png", kasm_server_needed |-> "False"] :
               uid \in Uids}

\* lists of section abbreviations passed to add_sections and remove_sections
AbbreviationLists == UNION {[1..n -> Abbreviations] : n \in 0..MaxAbbrs}

(* return values: kind is "self", "None", "True", "False", "id", "error"   *)
(* (the ({"error": msg}, 500) tuple) or "raise" (an exception leaves the   *)
(* method); val is the id for "id", msg the message or exception name.     *)
Ret(kind, val, msg) == [kind |-> kind, val |-> val, msg |-> msg]
RetSelf == Ret("self", 0, "")
RetNone == Ret("None", 0, "")
RetTrue == Ret("True", 0, "")
RetFalse == Ret("False", 0, "")
RetRaise(e) == Ret("raise", 0, e)

\* the method called last: the object it was called on, what it was given,
\* the branch it took, what it returned and how it left the session
Last(op, self, args, path, ret, txn) ==
    [op |-> op, self |-> self, args |-> args, path |-> path, ret |-> ret,
     txn |-> txn]

(* ------------------------- database helpers ---------------------------- *)
Max(S) == CHOOSE x \in S : \A y \in S : y <= x
Min(S) == CHOOSE x \in S : \A y \in S : x <= y

\* Integer primary key assigned by the database on insert
NextId(rows) == IF rows = {} THEN 1 ELSE Max({r.id : r \in rows}) + 1

\* Query.first() on rows with an id
First(rows) == CHOOSE r \in rows : r.id = Min({x.id : x \in rows})

\* emptiness test used by the update methods: len(x) > 0
HasLength(s) == s /= ""

\* generate_password_hash(password, "pbkdf2:sha256", salt_length=10)
set_password(password, salt) == <<"pbkdf2:sha256", salt, password>>

\* User.__init__
User(id, name, uid, password, salt, kasm_server_needed, role, pfp) ==
    [id |-> id, name |-> name, uid |-> uid,
     password |-> set_password(password, salt),
     kasm_server_needed |-> kasm_server_needed, role |-> role, pfp |-> pfp]

\* Section.__init__
Section(id, name, abbreviation) ==
    [id |-> id, name |-> name, abbreviation |-> abbreviation]

\* users._uid: unique=True
UidUniqueMutant(rows) == TRUE
UidUnique(rows) ==
    \A a, b \in rows : a.uid = b.uid => a = b

\* users._name, users._uid: nullable=False
UsersIntegrity(rows) ==
    /\ \A r \in rows : r.name /= None /\ r.uid /= None
    /\ UidUnique(rows)

\* sections._abbreviation: unique=True
AbbreviationUniqueMutant(rows) == TRUE
AbbreviationUnique(rows) ==
    \A a, b \in rows : a.abbreviation = b.abbreviation => a = b

\* sections._name, sections._abbreviation: nullable=False
SectionsIntegrity(rows) ==
    /\ \A r \in rows : r.name /= None /\ r.abbreviation /= None
    /\ AbbreviationUnique(rows)

\* user_sections: primary key (user_id, section_id); an INSERT of a key
\* that is already there fails
UserSectionsKeyFree(rows, new) ==
    ~ \E r \in rows : r.user_id = new.user_id /\ r.section_id = new.section_id

\* User.sections: the sections joined to the user through user_sections
SectionsOf(u, secs, rows) ==
    {s \in secs : \E r \in rows : r.user_id = u.id /\ r.section_id = s.id}

\* User.stock_user: the StockUser rows whose _user_id is the user's _uid
StockUsersOf(u, sus) == {su \in sus : su.user_id = u.uid}

\* UserSection.set_year_based_on_enrollment, on date.today() = (year, month)
set_year_based_on_enrollment(current_month, current_year) ==
    IF 7 <= current_month /\ current_month <= 12
    THEN current_year + 1
    ELSE current_year

\* UserSection.__init__
UserSection(user, section, current_month, current_year) ==
    [user_id |-> user.id, section_id |-> section.id,
     year |-> set_year_based_on_enrollment(current_month, current_year)]

\* A value that may be None is the set of at most one value: {} is None.
\* body.get(key)
BodyGet(body, key) == IF key \in DOMAIN body THEN {body[key]} ELSE {}

\* Query.value(column): the column of the first row, None without a row
QueryValue(rows, column) == IF rows = {} THEN {} ELSE {First(rows)[column]}

The(opt) == CHOOSE x \in opt : TRUE

\* StockUser.__init__
StockUser(id, user_id, stockmoney) ==
    [id |-> id, user_id |-> user_id, stockmoney |-> stockmoney]

\* Stocks.__init__
Stocks(id, symbol, company, quantity, sheesh) ==
    [id |-> id, symbol |-> symbol, company |-> company,
     quantity |-> quantity, sheesh |-> sheesh]

\* Transactions.__init__
Transactions(id, user_id, transaction_type, quantity) ==
    [id |-> id, user_id |-> user_id, transaction_type |-> transaction_type,
     quantity |-> quantity]

\* User_Transaction_Stocks.__init__
User_Transaction_Stocks(user_id, transaction_id, stock_id, q, price, amount) ==
    [user_id |-> user_id, transaction_id |-> transaction_id,
     stock_id |-> stock_id, quantity |-> q, price_per_stock |-> price,
     transaction_amount |-> amount]

\* user_transaction_stocks: primary key (_user_id, _transaction_id, _stock_id)
TransactionStocksKeyFree(rows, new) ==
    ~ \E r \in rows : /\ r.user_id = new.user_id
                      /\ r.transaction_id = new.transaction_id
                      /\ r.stock_id = new.stock_id

\* Transactions.stock_transaction: the rows of the transaction
StockTransactionsOf(transaction, rows) ==
    {r \in rows : r.transaction_id = transaction.id}

\* StockUser.get_userid(uid)
get_userid(uid) ==
    QueryValue({su \in stockusers : su.user_id = uid}, "id")

\* Stocks.get_stockid(symbol)
get_stockid(symbol) ==
    QueryValue({st \in stocks : st.symbol = symbol}, "id")

\* Stocks.get_price(body)
get_price(body) ==
    QueryValue({st \in stocks : {st.symbol} = BodyGet(body, "symbol")},
               "sheesh")

(* ------------------------------ Init ----------------------------------- *)
\* after db.create_all(): empty tables
Init ==
    /\ users = {}
    /\ sections = {}
    /\ user_sections = {}
    /\ stockusers = {}
    /\ stocks = {}
    /\ transactions = {}
    /\ user_transaction_stocks = {}
    /\ last = Last("init", 0, <<>>, "", RetNone, "none")

\* after initUsers(), cut down to u1, s1 and u1.add_section(s1)
InitUsers ==
    \E month \in Months, year \in Years, salt \in Salts :
        LET u1 == User(1, "Thomas Edison", "toby", "123toby", salt, "True",
                       "Admin", "toby.png")
            s1 == Section(1, "Computer Science A", "CSA")
        IN  /\ users = {u1}
            /\ sections = {s1}
            /\ user_sections = {UserSection(u1, s1, month, year)}
            /\ stockusers = {}
            /\ stocks = {}
            /\ transactions = {}
            /\ user_transaction_stocks = {}
            /\ last = Last("initUsers", 0, <<>>, "", RetNone, "commit")

(* --------------------------- User CRUD --------------------------------- *)
\* User(name, uid, password, kasm_server_needed, role, pfp).create()
User_create(name, uid, password, salt, kasm, role, pfp) ==
    LET self == User(NextId(users), name, uid, password, salt, kasm, role, pfp)
        ok == UsersIntegrity(users \cup {self})
    IN  /\ ok => self.id <= MaxUsers
        /\ users' = IF ok THEN users \cup {self} ELSE users
        /\ last' = Last("User.create", IF ok THEN self.id ELSE 0,
                        [name |-> name, uid |-> uid],
                        IF ok THEN "commit" ELSE "IntegrityError",
                        IF ok THEN RetSelf ELSE RetNone,
                        IF ok THEN "commit" ELSE "rollback")
        /\ UNCHANGED <<sections, user_sections, stockusers, stocks,
                       transactions, user_transaction_stocks>>

\* the field assignments of User.update, before the commit
update_fieldsMutant(self, name, uid, password, salt, pfp, kasm) ==
    [self EXCEPT !.name = name,
                 !.uid = IF HasLength(uid) THEN uid ELSE @,
                 !.password = IF HasLength(password)
                              THEN set_password(password, salt) ELSE @,
                 !.pfp = IF pfp /= None THEN pfp ELSE @,
                 !.kasm_server_needed = IF kasm /= None THEN kasm ELSE @]
update_fields(self, name, uid, password, salt, pfp, kasm) ==
    [self EXCEPT !.name = IF HasLength(name) THEN name ELSE @,
                 !.uid = IF HasLength(uid) THEN uid ELSE @,
                 !.password = IF HasLength(password)
                              THEN set_password(password, salt) ELSE @,
                 !.pfp = IF pfp /= None THEN pfp ELSE @,
                 !.kasm_server_needed = IF kasm /= None THEN kasm ELSE @]

\* self.update(name, uid, password, pfp, kasm_server_needed); the commit
\* raises IntegrityError out of update when the new uid is taken
User_update(self, name, uid, password, salt, pfp, kasm) ==
    LET new == update_fields(self, name, uid, password, salt, pfp, kasm)
        rows == (users \ {self}) \cup {new}
        ok == UsersIntegrity(rows)
    IN  /\ self \in users
        /\ users' = IF ok THEN rows ELSE users
        /\ last' = Last("User.update", self.id,
                        [name |-> name, uid |-> uid, password |-> password,
                         pfp |-> pfp, kasm_server_needed |-> kasm],
                        IF ok THEN "commit" ELSE "IntegrityError",
                        IF ok THEN RetSelf ELSE RetRaise("IntegrityError"),
                        IF ok THEN "commit" ELSE "raised")
        /\ UNCHANGED <<sections, user_sections, stockusers, stocks,
                       transactions, user_transaction_stocks>>

\* self.delete().  The user's user_sections rows go with it (cascade of the
\* user_sections backref).  A StockUser of the user would be given a NULL
\* _user_id, which nullable=False refuses.  user_sections is mapped twice
\* (UserSection and the secondary of User.sections), so the flush deletes
\* each enrollment row through both; it either goes through or stops with
\* StaleDataError on the second delete (stale).
User_delete(self, stale) ==
    LET enrolled == {r \in user_sections : r.user_id = self.id}
        nullify == StockUsersOf(self, stockusers) /= {}
        fail == nullify \/ (stale /\ enrolled /= {})
    IN  /\ self \in users
        /\ users' = IF fail THEN users ELSE users \ {self}
        /\ user_sections' = IF fail THEN user_sections
                            ELSE user_sections \ enrolled
        /\ last' = Last("User.delete", self.id, <<>>,
                        IF nullify THEN "IntegrityError"
                        ELSE IF fail THEN "StaleDataError" ELSE "commit",
                        IF nullify THEN RetRaise("IntegrityError")
                        ELSE IF fail THEN RetRaise("StaleDataError")
                        ELSE RetNone,
                        IF fail THEN "raised" ELSE "commit")
        /\ UNCHANGED <<sections, stockusers, stocks, transactions,
                       user_transaction_stocks>>

(* -------------------------- Section CRUD ------------------------------- *)
\* Section(name, abbreviation).create()
Section_create(name, abbreviation) ==
    LET self == Section(NextId(sections), name, abbreviation)
        ok == SectionsIntegrity(sections \cup {self})
    IN  /\ ok => self.id <= MaxSections
        /\ sections' = IF ok THEN sections \cup {self} ELSE sections
        /\ last' = Last("Section.create", IF ok THEN self.id ELSE 0,
                        [name |-> name, abbreviation |-> abbreviation],
                        IF ok THEN "commit" ELSE "IntegrityError",
                        IF ok THEN RetSelf ELSE RetNone,
                        IF ok THEN "commit" ELSE "rollback")
        /\ UNCHANGED <<users, user_sections, stockusers, stocks,
                       transactions, user_transaction_stocks>>

\* self.delete(), with the section's user_sections rows (see User_delete)
Section_delete(self, stale) ==
    LET enrolled == {r \in user_sections : r.section_id = self.id}
        fail == stale /\ enrolled /= {}
    IN  /\ self \in sections
        /\ sections' = IF fail THEN sections ELSE sections \ {self}
        /\ user_sections' = IF fail THEN user_sections
                            ELSE user_sections \ enrolled
        /\ last' = Last("Section.delete", self.id, <<>>,
                        IF fail THEN "StaleDataError" ELSE "commit",
                        IF fail THEN RetRaise("StaleDataError") ELSE RetNone,
                        IF fail THEN "raised" ELSE "commit")
        /\ UNCHANGED <<users, stockusers, stocks, transactions,
                       user_transaction_stocks>>

(* --------------------------- enrollment -------------------------------- *)
\* found = any(s.id == section.id for s in self.sections)
section_foundMutant(self, section, rows) == FALSE
section_found(self, section, rows) ==
    \E s \in SectionsOf(self, sections, rows) : s.id = section.id

\* self.add_section(section) on the enrollment rows: the rows after it,
\* the branch taken and the result
add_section(self, section, rows, month, year) ==
    LET user_section == UserSection(self, section, month, year)
    IN  IF section_found(self, section, rows)
        THEN [rows |-> rows, path |-> "found", ret |-> RetSelf]
        ELSE IF UserSectionsKeyFree(rows, user_section)
        THEN [rows |-> rows \cup {user_section}, path |-> "added",
              ret |-> RetSelf]
        ELSE [rows |-> rows, path |-> "IntegrityError",
              ret |-> RetRaise("IntegrityError")]

User_add_section(self, section, month, year) ==
    \E r \in {add_section(self, section, user_sections, month, year)} :
        /\ self \in users
        /\ section \in sections
        /\ user_sections' = r.rows
        /\ last' = Last("User.add_section", self.id,
                        [section |-> section.id], r.path, r.ret,
                        IF r.path = "added" THEN "commit"
                        ELSE IF r.path = "found" THEN "none" ELSE "raised")
        /\ UNCHANGED <<users, sections, stockusers, stocks, transactions,
                       user_transaction_stocks>>

\* the loop of self.add_sections(sections): every add_section commits, so
\* the rows added before an unknown abbreviation stay
RECURSIVE add_sections(_, _, _, _, _)
add_sections(self, abbreviations, rows, month, year) ==
    IF abbreviations = <<>>
    THEN [rows |-> rows, path |-> "done", ret |-> RetSelf]
    ELSE LET objs == {s \in sections : s.abbreviation = Head(abbreviations)}
         IN  IF objs = {}
             THEN [rows |-> rows, path |-> "not found", ret |-> RetNone]
             ELSE LET r == add_section(self, First(objs), rows, month, year)
                  IN  IF r.ret.kind = "raise" THEN r
                      ELSE add_sections(self, Tail(abbreviations), r.rows,
                                        month, year)

User_add_sections(self, abbreviations, month, year) ==
    \E r \in {add_sections(self, abbreviations, user_sections, month, year)} :
        /\ self \in users
        /\ user_sections' = r.rows
        /\ last' = Last("User.add_sections", self.id, <<>>, r.path, r.ret,
                        IF r.rows /= user_sections THEN "commit"
                        ELSE IF r.ret.kind = "raise" THEN "raised" ELSE "none")
        /\ UNCHANGED <<users, sections, stockusers, stocks, transactions,
                       user_transaction_stocks>>

\* the loop of self.remove_sections(section_abbreviations) on the loaded
\* list self.sections: ok is FALSE when ValueError is raised, for the
\* abbreviation bad
RECURSIVE remove_loopMutant(_, _)
remove_loopMutant(loaded, abbreviations) ==
    IF abbreviations = <<>>
    THEN [ok |-> TRUE, loaded |-> loaded, bad |-> ""]
    ELSE LET match == {s \in loaded : s.abbreviation = Head(abbreviations)}
         IN  remove_loopMutant(loaded \ match, Tail(abbreviations))

RECURSIVE remove_loop(_, _)
remove_loop(loaded, abbreviations) ==
    IF abbreviations = <<>>
    THEN [ok |-> TRUE, loaded |-> loaded, bad |-> ""]
    ELSE LET match == {s \in loaded : s.abbreviation = Head(abbreviations)}
         IN  IF match /= {}
             THEN remove_loop(loaded \ {First(match)}, Tail(abbreviations))
             ELSE [ok |-> FALSE, loaded |-> loaded,
                   bad |-> Head(abbreviations)]

\* self.remove_sections(section_abbreviations): commit of the removals, or
\* rollback and False
User_remove_sections(self, abbreviations) ==
    \E r \in {remove_loop(SectionsOf(self, sections, user_sections),
                         abbreviations)} :
    LET before == SectionsOf(self, sections, user_sections)
        removed == {s.id : s \in before \ r.loaded}
    IN  /\ self \in users
        /\ user_sections' =
              IF r.ok
              THEN {row \in user_sections :
                       ~(row.user_id = self.id /\ row.section_id \in removed)}
              ELSE user_sections
        /\ last' = Last("User.remove_sections", self.id,
                        [abbreviations |-> abbreviations,
                         abbreviation |-> r.bad,
                         removed |-> Cardinality(removed)],
                        IF r.ok THEN "commit" ELSE "ValueError",
                        IF r.ok THEN RetTrue ELSE RetFalse,
                        IF r.ok THEN "commit" ELSE "rollback")
        /\ UNCHANGED <<users, sections, stockusers, stocks, transactions,
                       user_transaction_stocks>>

(* --------------------------- stock game -------------------------------- *)
\* found = user.stock_user is not None
stock_user_foundMutant(user) == FALSE
stock_user_found(user) == StockUsersOf(user, stockusers) /= {}

\* self.add_stockuser(uid)
User_add_stockuser(self, uid) ==
    LET matches == {u \in users : u.uid = uid}
        user == First(matches)
        stock_user == StockUser(NextId(stockusers), user.uid, 100000)
        path == IF matches = {} THEN "no user"
                ELSE IF stock_user_found(user) THEN "found" ELSE "added"
    IN  /\ self \in users
        /\ path = "added" => stock_user.id <= MaxStockUsers
        /\ stockusers' = IF path = "added"
                          THEN stockusers \cup {stock_user} ELSE stockusers
        /\ last' = Last("User.add_stockuser", self.id, [uid |-> uid], path,
                        RetNone, IF path = "added" THEN "commit" ELSE "none")
        /\ UNCHANGED <<users, sections, user_sections, stocks, transactions,
                       user_transaction_stocks>>

\* Stocks(symbol, company, quantity, sheesh).create(); _symbol is not unique
Stocks_create(symbol, company, quantity, sheesh) ==
    LET self == Stocks(NextId(stocks), symbol, company, quantity, sheesh)
    IN  /\ self.id <= MaxStocks
        /\ stocks' = stocks \cup {self}
        /\ last' = Last("Stocks.create", self.id, [symbol |-> symbol],
                        "commit", RetSelf, "commit")
        /\ UNCHANGED <<users, sections, user_sections, stockusers,
                       transactions, user_transaction_stocks>>

\* Transactions.createlog_buy(body).  user.id of no StockUser raises
\* AttributeError, the commit of a None quantity IntegrityError
\* (_quantity is nullable=False); both end in the except branch.
transactiontypeMutant == "sell"
transactiontype == "buy"

Transactions_createlog_buy(body) ==
    LET matches == {su \in stockusers : {su.user_id} = BodyGet(body, "uid")}
        quantity == BodyGet(body, "quantity")
        path == IF matches = {} THEN "AttributeError"
                ELSE IF quantity = {} THEN "IntegrityError" ELSE "added"
        stock_user == Transactions(NextId(transactions), First(matches).id,
                                   transactiontype, The(quantity))
    IN  /\ path = "added" => stock_user.id <= MaxTransactions
        /\ transactions' = IF path = "added"
                            THEN transactions \cup {stock_user}
                            ELSE transactions
        /\ last' = Last("Transactions.createlog_buy", 0, body, path,
                        IF path = "added" THEN Ret("id", stock_user.id, "")
                        ELSE Ret("error", 500,
                          "account has not been autocreated for stock game"),
                        IF path = "added" THEN "commit"
                        ELSE IF path = "IntegrityError" THEN "raised"
                        ELSE "none")
        /\ UNCHANGED <<users, sections, user_sections, stockusers, stocks,
                       user_transaction_stocks>>

\* found = transaction.stock_transaction is not None
stock_transaction_foundMutant(transaction) == FALSE
stock_transaction_found(transaction) ==
    StockTransactionsOf(transaction, user_transaction_stocks) /= {}

\* User_Transaction_Stocks.multilog_buy(body, value, transactionid).  A row
\* with a None user, stock, quantity or price is refused by the flush, and
\* the exception leaves multilog_buy.
Transaction_Stocks_multilog_buy(body, value, transactionid) ==
    LET matches == {t \in transactions : t.id = transactionid}
        transaction == First(matches)
        userid == get_userid(The(BodyGet(body, "uid")))
        stockid == get_stockid(The(BodyGet(body, "symbol")))
        stockprice == get_price(body)
        quantity == BodyGet(body, "quantity")
        complete == userid /= {} /\ stockid /= {} /\ stockprice /= {}
                       /\ quantity /= {}
        stock_transaction ==
            User_Transaction_Stocks(The(userid), transaction.id, The(stockid),
                                    The(quantity), The(stockprice), value)
        path == IF matches = {} THEN "no transaction"
                ELSE IF stock_transaction_found(transaction) THEN "found"
                ELSE IF ~complete THEN "IntegrityError"
                ELSE IF TransactionStocksKeyFree(user_transaction_stocks,
                                                 stock_transaction)
                THEN "added" ELSE "IntegrityError"
    IN  /\ user_transaction_stocks' =
              IF path = "added"
              THEN user_transaction_stocks \cup {stock_transaction}
              ELSE user_transaction_stocks
        /\ last' = Last("User_Transaction_Stocks.multilog_buy", 0,
                        [body |-> body, transactionid |-> transactionid],
                        path,
                        IF path = "IntegrityError"
                        THEN RetRaise("IntegrityError") ELSE RetNone,
                        IF path = "added" THEN "commit"
                        ELSE IF path = "IntegrityError" THEN "raised"
                        ELSE "none")
        /\ UNCHANGED <<users, sections, user_sections, stockusers, stocks,
                       transactions>>

(* -------------------------- stock catalog ------------------------------ *)
\* self.update(symbol, company, quantity): symbol and company with length,
\* quantity when it is an int above 0
Stocks_update(self, symbol, company, quantity) ==
    LET new == [self EXCEPT
                  !.symbol = IF HasLength(symbol) THEN symbol ELSE @,
                  !.company = IF HasLength(company) THEN company ELSE @,
                  !.quantity = IF quantity /= {} /\ The(quantity) > 0
                               THEN The(quantity) ELSE @]
    IN  /\ self \in stocks
        /\ stocks' = (stocks \ {self}) \cup {new}
        /\ last' = Last("Stocks.update", self.id,
                        [symbol |-> symbol, company |-> company,
                         quantity |-> quantity],
                        "commit", RetSelf, "commit")
        /\ UNCHANGED <<users, sections, user_sections, stockusers,
                       transactions, user_transaction_stocks>>

\* what a method hands back for the result of Query.value: the value, or
\* None when the query had no row.  No exception is raised for a missing
\* row, so the except branch is not entered.
ValueResult(opt) ==
    IF opt = {} THEN RetNone ELSE Ret("value", The(opt), "")

\* Stocks.get_price(self, body), called as a lookup
Stocks_get_price(body) ==
    /\ last' = Last("Stocks.get_price", 0, body,
                    IF get_price(body) = {} THEN "no row" ELSE "row",
                    ValueResult(get_price(body)), "none")
    /\ UNCHANGED <<users, sections, user_sections, stockusers, stocks,
                   transactions, user_transaction_stocks>>

\* Stocks.get_stockid(self, symbol), called as a lookup
Stocks_get_stockid(symbol) ==
    /\ last' = Last("Stocks.get_stockid", 0, [symbol |-> symbol],
                    IF get_stockid(symbol) = {} THEN "no row" ELSE "row",
                    ValueResult(get_stockid(symbol)), "none")
    /\ UNCHANGED <<users, sections, user_sections, stockusers, stocks,
                   transactions, user_transaction_stocks>>

(* -------------------------- specifications ----------------------------- *)
\* user accounts, from the data set of initUsers
NextUser ==
    \/ \E name \in {"Nicholas Tesla", None}, uid \in Uids \cup {None},
          salt \in Salts :
          User_create(name, uid, "123niko", salt, "False", "User", "niko.png")
    \/ \E self \in users, a \in UpdateArgs, salt \in Salts :
          User_update(self, a.name, a.uid, a.password, salt, a.pfp,
                      a.kasm_server_needed)
    \/ \E self \in users, stale \in BOOLEAN : User_delete(self, stale)

SpecUser == InitUsers /\ [][NextUser]_vars

\* sections and enrollment
NextSection ==
    \/ \E uid \in Uids :
          User_create("Nicholas Tesla", uid, "123niko", "salt1", "False",
                      "User", "niko.png")
    \/ \E name \in SectionNames, abbreviation \in Abbreviations \cup {None} :
          Section_create(name, abbreviation)
    \/ \E self \in users, section \in sections, month \in Months,
          year \in Years : User_add_section(self, section, month, year)
    \/ \E self \in users, abbreviations \in AbbreviationLists,
          month \in Months, year \in Years :
          User_add_sections(self, abbreviations, month, year)
    \/ \E self \in users, abbreviations \in AbbreviationLists :
          User_remove_sections(self, abbreviations)

SpecSection == Init /\ [][NextSection]_vars

\* the section catalog
NextCatalog ==
    \/ \E uid \in Uids :
          User_create("Nicholas Tesla", uid, "123niko", "salt1", "False",
                      "User", "niko.png")
    \/ \E name \in SectionNames \cup {None},
          abbreviation \in Abbreviations \cup {None} :
          Section_create(name, abbreviation)
    \/ \E self \in sections, stale \in BOOLEAN : Section_delete(self, stale)
    \/ \E self \in users, section \in sections, month \in Months,
          year \in Years : User_add_section(self, section, month, year)

SpecCatalog == Init /\ [][NextCatalog]_vars

\* the stock game
NextStock ==
    \/ \E uid \in Uids :
          User_create("Nicholas Tesla", uid, "123niko", "salt1", "False",
                      "User", "niko.png")
    \/ \E self \in users, uid \in Uids : User_add_stockuser(self, uid)
    \/ \E symbol \in Symbols, company \in Companies,
          quantity \in Quantities, sheesh \in Prices :
          Stocks_create(symbol, company, quantity, sheesh)
    \/ \E body \in Bodies : Transactions_createlog_buy(body)
    \/ \E body \in Bodies, value \in {q * p : q \in Quantities, p \in Prices},
          transactionid \in 1..(MaxTransactions + 1) :
          Transaction_Stocks_multilog_buy(body, value, transactionid)

SpecStock == Init /\ [][NextStock]_vars

\* the stock catalog and its lookups
NextQuote ==
    \/ \E symbol \in Symbols, company \in Companies,
          quantity \in Quantities, sheesh \in Prices \cup {2800} :
          Stocks_create(symbol, company, quantity, sheesh)
    \/ \E self \in stocks, symbol \in Symbols \cup {""},
          company \in Companies \cup {""},
          quantity \in {{}, {0}} \cup {{q + 1} : q \in Quantities} :
          Stocks_update(self, symbol, company, quantity)
    \/ \E body \in [symbol : Symbols] : Stocks_get_price(body)
    \/ \E symbol \in Symbols : Stocks_get_stockid(symbol)

SpecQuote == Init /\ [][NextQuote]_vars

(* ============================== claims ================================= *)

\* the user_sections rows of user id u for section id s
Enrollments(u, s, rows) ==
    {r \in rows : r.user_id = u /\ r.section_id = s}

\* C1: add_section is duplicate-guarded.  In every reachable state a user
\* has at most one user_sections row per section, and a call of add_section
\* with a section the user is already enrolled in leaves the rows as they
\* were and returns the user.
C1_AddSectionDuplicateGuarded ==
    /\ [](\A u \in users, s \in sections :
            Cardinality(Enrollments(u.id, s.id, user_sections)) <= 1)
    /\ [][(/\ last'.op = "User.add_section"
           /\ Enrollments(last'.self, last'.args.section, user_sections) /= {})
          => (user_sections' = user_sections /\ last'.ret = RetSelf)]_vars

\* C1 witness: add_section was called for a section the user is enrolled in
C1_Witness ==
    /\ last.op = "User.add_section"
    /\ last.path = "found"
    /\ Enrollments(last.self, last.args.section, user_sections) /= {}

\* C2: the year of a new enrollment is next year exactly when the current
\* month is between August (8) and December (12), this year otherwise.
C2_YearNextFromAugust ==
    [][\A self \in users, section \in sections, month \in Months,
          year \in Years :
          (User_add_section(self, section, month, year)
              /\ last'.path = "added")
          => \E r \in user_sections' \ user_sections :
                /\ r.user_id = self.id /\ r.section_id = section.id
                /\ r.year = IF 8 <= month /\ month <= 12
                            THEN year + 1 ELSE year]_vars

\* C3: User.create returns the user when the record is persisted and None on
\* an integrity error; with a uid that a persisted user has, it returns
\* None, rolls the session back and leaves the persisted users as they were.
C3_CreateSelfOrNone ==
    [][last'.op = "User.create"
       => /\ last'.ret \in {RetSelf, RetNone}
          /\ last'.ret = RetSelf
             => \E u \in users' \ users :
                   /\ users' = users \cup {u}
                   /\ u.uid = last'.args.uid /\ u.name = last'.args.name
          /\ last'.ret = RetNone
             => (users' = users /\ last'.path = "IntegrityError")
          /\ (\E u \in users : u.uid = last'.args.uid)
             => /\ last'.ret = RetNone
                /\ last'.txn = "rollback"
                /\ users' = users]_vars

\* C3 witness: create was called with the uid of a persisted user
C3_Witness ==
    /\ last.op = "User.create"
    /\ last.ret = RetNone
    /\ last.txn = "rollback"
    /\ \E u \in users : u.uid = last.args.uid

\* C4: no two persisted users have the same uid, whatever create, update
\* and delete calls were made.
C4_UidUnique ==
    \A a, b \in users : a.uid = b.uid => a.id = b.id

\* C4 witness: update was called with the uid of another persisted user
C4_Witness ==
    /\ last.op = "User.update"
    /\ last.path = "IntegrityError"
    /\ Cardinality({u.uid : u \in users}) = 2

EnrolledAbbreviations(u) ==
    {s.abbreviation :
        s \in {x \in sections : Enrollments(u, x.id, user_sections) /= {}}}

\* the user_sections rows without those of user id u for the abbreviations
WithoutEnrollments(u, abbreviations) ==
    {r \in user_sections :
        ~(/\ r.user_id = u
          /\ \E s \in sections : /\ s.id = r.section_id
                                 /\ s.abbreviation \in abbreviations)}

Range(seq) == {seq[i] : i \in DOMAIN seq}

NoRepeat(seq) == \A i, j \in DOMAIN seq : seq[i] = seq[j] => i = j

\* C6 as claimed: remove_sections removes exactly the named enrollments and
\* returns True when every abbreviation of the list names a section the
\* user is enrolled in, and otherwise returns False with the persisted
\* enrollments as before the call.
C6_RemoveAllOrNothing_Claimed ==
    [][last'.op = "User.remove_sections"
       => LET u == last'.self
              l == last'.args.abbreviations
          IN  IF Range(l) \subseteq EnrolledAbbreviations(u)
              THEN /\ last'.ret = RetTrue
                   /\ user_sections' = WithoutEnrollments(u, Range(l))
              ELSE /\ last'.ret = RetFalse
                   /\ user_sections' = user_sections]_vars

\* C6 amended: the same, where True also needs that no abbreviation occurs
\* twice in the list; a second occurrence is not found among the sections
\* left in the list, so it ends in the rollback and False.
C6_RemoveAllOrNothing ==
    [][last'.op = "User.remove_sections"
       => LET u == last'.self
              l == last'.args.abbreviations
          IN  IF Range(l) \subseteq EnrolledAbbreviations(u) /\ NoRepeat(l)
              THEN /\ last'.ret = RetTrue
                   /\ user_sections' = WithoutEnrollments(u, Range(l))
              ELSE /\ last'.ret = RetFalse
                   /\ last'.txn = "rollback"
                   /\ user_sections' = user_sections]_vars

\* C6 witness: remove_sections failed after it had taken a section off the
\* list, and the user is still enrolled in it
C6_Witness ==
    /\ last.op = "User.remove_sections"
    /\ last.ret = RetFalse
    /\ last.args.removed > 0
    /\ last.args.abbreviations[1] \in EnrolledAbbreviations(last.self)

\* C7: a user has at most one StockUser; add_stockuser creates one with
\* stockmoney 100000 when the uid names a persisted user without one, and
\* changes nothing when the uid names no user or the user has one.
C7_OneStockUserPerUser ==
    /\ [](\A u \in users :
            Cardinality({su \in stockusers : su.user_id = u.uid}) <= 1)
    /\ [][last'.op = "User.add_stockuser"
          => LET uid == last'.args.uid
             IN  IF /\ \E u \in users : u.uid = uid
                    /\ ~ \E su \in stockusers : su.user_id = uid
                 THEN \E su \in stockusers' \ stockusers :
                         /\ stockusers' = stockusers \cup {su}
                         /\ su.user_id = uid
                         /\ su.stockmoney = 100000
                 ELSE stockusers' = stockusers]_vars

\* C7 witness: add_stockuser was called for a user that has a StockUser
C7_Witness ==
    /\ last.op = "User.add_stockuser"
    /\ last.path = "found"
    /\ \E u \in users : u.uid = last.args.uid
    /\ \E su \in stockusers : su.user_id = last.args.uid

\* the error result of createlog_buy
CreatelogError ==
    Ret("error", 500, "account has not been autocreated for stock game")

\* createlog_buy added exactly one transaction, a buy of the body's quantity
\* by one of the StockUsers sus, and returned its id
CreatelogAdded(sus) ==
    \E t \in transactions' \ transactions :
        /\ transactions' = transactions \cup {t}
        /\ t.transaction_type = "buy"
        /\ t.user_id \in {su.id : su \in sus}
        /\ {t.quantity} = BodyGet(last'.args, "quantity")
        /\ last'.ret = Ret("id", t.id, "")

\* C8 as claimed: with a StockUser for the body's uid createlog_buy adds one
\* buy transaction and returns its id; without one it returns the error
\* result and adds nothing.
C8_CreatelogBuy_Claimed ==
    [][last'.op = "Transactions.createlog_buy"
       => LET sus == {su \in stockusers : su.user_id = last'.args.uid}
          IN  IF sus /= {}
              THEN CreatelogAdded(sus)
              ELSE /\ last'.ret = CreatelogError
                   /\ transactions' = transactions]_vars

\* C8 amended: the transaction is added when a StockUser exists and the
\* body gives a quantity; with no StockUser or no quantity (None) the error
\* result is returned and nothing is added.
C8_CreatelogBuy ==
    [][last'.op = "Transactions.createlog_buy"
       => LET sus == {su \in stockusers : su.user_id = last'.args.uid}
          IN  IF sus /= {} /\ "quantity" \in DOMAIN last'.args
              THEN CreatelogAdded(sus)
              ELSE /\ last'.ret = CreatelogError
                   /\ transactions' = transactions]_vars

\* C8 witness: createlog_buy logged a buy for a StockUser
C8_Witness ==
    /\ last.op = "Transactions.createlog_buy"
    /\ last.ret.kind = "id"
    /\ \E t \in transactions, su \in stockusers :
          /\ t.id = last.ret.val
          /\ t.user_id = su.id
          /\ su.user_id = last.args.uid

\* C9: a transaction has at most one user_transaction_stocks row, and
\* multilog_buy adds no row when the transaction id names no transaction or
\* the transaction has a row.
C9_OneStockRowPerTransaction ==
    /\ [](\A t \in transactions :
            Cardinality({r \in user_transaction_stocks :
                            r.transaction_id = t.id}) <= 1)
    /\ [][(/\ last'.op = "User_Transaction_Stocks.multilog_buy"
           /\ \/ ~ \E t \in transactions : t.id = last'.args.transactionid
              \/ \E r \in user_transaction_stocks :
                    r.transaction_id = last'.args.transactionid)
          => user_transaction_stocks' = user_transaction_stocks]_vars

\* C9 witness: multilog_buy was called for a transaction that has its row
C9_Witness ==
    /\ last.op = "User_Transaction_Stocks.multilog_buy"
    /\ last.path = "found"
    /\ \E r \in user_transaction_stocks :
          r.transaction_id = last.args.transactionid

\* C10: no two persisted sections have the same abbreviation, and
\* Section.create with the abbreviation of a persisted section returns None
\* and leaves the persisted sections as they were.
C10_AbbreviationUnique ==
    /\ [](\A a, b \in sections : a.abbreviation = b.abbreviation => a.id = b.id)
    /\ [][(/\ last'.op = "Section.create"
           /\ \E s \in sections : s.abbreviation = last'.args.abbreviation)
          => (last'.ret = RetNone /\ sections' = sections)]_vars

\* C10 witness: Section.create was called with a persisted abbreviation
C10_Witness ==
    /\ last.op = "Section.create"
    /\ last.ret = RetNone
    /\ \E s \in sections : s.abbreviation = last.args.abbreviation

\* the error result of get_price and get_stockid
NoSuchStock == Ret("error", 500, "No such stock exists")

\* C11: get_price and get_stockid return the error result when no stock has
\* the requested symbol, and the price (sheesh) and the id of a stock with
\* that symbol when one exists.
C11_LookupOrError ==
    /\ last.op = "Stocks.get_price"
       => IF \E st \in stocks : st.symbol = last.args.symbol
          THEN \E st \in stocks : /\ st.symbol = last.args.symbol
                                  /\ last.ret = Ret("value", st.sheesh, "")
          ELSE last.ret = NoSuchStock
    /\ last.op = "Stocks.get_stockid"
       => IF \E st \in stocks : st.symbol = last.args.symbol
          THEN \E st \in stocks : /\ st.symbol = last.args.symbol
                                  /\ last.ret = Ret("value", st.id, "")
          ELSE last.ret = NoSuchStock
====
